---- MODULE Spec2Model ----
(***************************************************************************)
(* Model of the agent templates:                                           *)
(*   - templates/agent-memory/agent.py: Memory (conversation log, facts,   *)
(*     token-budgeted context rendering);                                  *)
(*   - templates/tool-calling-agent/agent.py: CircuitBreaker, the          *)
(*     smart_retry decorator, execute_tool_with_retry and robust_agent;    *)
(*   - templates/react-agent/agent.py: tool_executor and react_agent;      *)
(*   - templates/multi-agent-orchestrator/orchestrator.py: Orchestrator    *)
(*     and SpecialistAgent.                                                *)
(* Texts are sequences of tokens, so that count_tokens is the length of a  *)
(* text and concatenation of texts is concatenation of sequences.          *)
(***************************************************************************)
EXTENDS Integers, Sequences, FiniteSets, TLC

VARIABLES
    \* ---- Memory (agent-memory/agent.py) ----
    max_context_tokens, \* Memory.max_context_tokens
    conversation,       \* Memory.conversation: sequence of [role, content]
    facts,              \* Memory.facts: insertion-ordered dict, as a sequence of entries
    working_state,      \* Memory.working_state: dict key -> value
    context,            \* what the operation just run returned, when it was
                        \* get_conversation_context (<<>> after any other)
    context_args,       \* the arguments of that call: [system_prompt, include_facts]
    renders,            \* calls of get_conversation_context made with those
                        \* arguments since the memory was last written (history)
    \* ---- CircuitBreaker and tool executor (tool-calling-agent/agent.py) ----
    failure_threshold,  \* CircuitBreaker.failure_threshold
    timeout_seconds,    \* CircuitBreaker.timeout_seconds
    failures,           \* CircuitBreaker.failures: dict service -> count
    opened_at,          \* CircuitBreaker.opened_at: dict service -> time
    now,                \* datetime.now(), in seconds
    th,                 \* per caller (thread): the operation it runs and where it is
    \* ---- history of the breaker, kept for the claims ----
    consec,             \* per service: record_failure calls since the last record_success
    tripped_at,         \* per service: when the record_failure call finished that
                        \* last left consec at failure_threshold or more, else -1
    ops_left,           \* per caller: operations it may still start (negative: no limit)
    probes,             \* per service: -1, or the capability calls begun since is_open
                        \* cleared the open marker with no outcome recorded since
    \* ---- react_agent / robust_agent (the ReAct loop) ----
    agent,              \* which loop runs: "react_agent", "robust_agent" or "none"
    max_iterations,     \* its parameter
    iteration,          \* the loop variable of "for iteration in range(max_iterations)"
    messages,           \* the conversation history of the run
    pending,            \* message.tool_calls not yet executed, in order
    lpc,                \* where the loop is
    answer,             \* how the run ended: the value returned or the exception raised
    responses,          \* history: the responses the model gave, in order
    observed,           \* history: the requests the executor was called with and
                        \* what each call ended with, in order
    \* ---- Orchestrator (multi-agent-orchestrator/orchestrator.py) ----
    task,               \* the task given to Orchestrator.run
    plan,               \* plan["steps"]
    step_index,         \* steps of the plan executed so far
    results,            \* _execute_plan's results: dict agent type -> AgentResult
    contexts,           \* history: the (task, context) each specialist was run with
                        \* and the AgentResult it gave, in order
    final_answer,       \* what Orchestrator.run returned
    opc                 \* where Orchestrator.run is

memVars == <<max_context_tokens, conversation, facts, working_state, context, context_args,
             renders>>

brkVars == <<failure_threshold, timeout_seconds, failures, opened_at, now, th,
             consec, tripped_at, probes, ops_left>>

loopVars == <<agent, max_iterations, iteration, messages, pending, lpc, answer,
              responses, observed>>

orchVars == <<task, plan, step_index, results, contexts, final_answer, opc>>

agentVars == <<loopVars, orchVars>>

vars == <<max_context_tokens, conversation, facts, working_state, context, context_args,
          renders,
          failure_threshold, timeout_seconds, failures, opened_at, now, th,
          consec, tripped_at, probes, ops_left,
          agent, max_iterations, iteration, messages, pending, lpc, answer,
          responses, observed,
          task, plan, step_index, results, contexts, final_answer, opc>>

-----------------------------------------------------------------------------
(* Bounds of the model *)

MaxBudget == 28        \* max_context_tokens is ResponseReserve plus one of Budgets
MaxMsgs == 3           \* length of the conversation log
MaxMsgTokens == 2      \* tokens of one message's content
MaxPromptTokens == 2   \* tokens of a system prompt
MaxFacts == 2          \* number of distinct fact keys
MaxThreshold == 4      \* failure_threshold ranges over 1..MaxThreshold
MaxRenders == 2        \* at most MaxRenders renders in a row with the same arguments
MaxTimeout == 2        \* timeout_seconds ranges over 1..MaxTimeout
MaxTime == 4           \* the clock runs from 0 to MaxTime
MaxFailures == 5       \* no failure is recorded for a service beyond this count
MaxConcOps == 1        \* operations each of two concurrent callers runs
MaxIterations == 2     \* max_iterations ranges over 0..MaxIterations
MaxBatch == 2          \* tool calls requested by one model response
MaxTaskWords == 3      \* words of a task given to the orchestrator

(* Program constants *)

MessageOverhead == 4   \* count_messages_tokens: "total += 4"
ResponseReserve == 500 \* get_conversation_context: "- 500  # Reserve for response"
FactsLimit == 10       \* _format_facts: sorted_facts[:10]
StopAfterAttempt == 3  \* smart_retry: stop=stop_after_attempt(3)
WaitMultiplier == 1    \* smart_retry: wait_exponential(multiplier=1, ...)
WaitMin == 1           \* smart_retry: wait_exponential(..., min=1, ...)
WaitMax == 10          \* smart_retry: wait_exponential(..., max=10)

-----------------------------------------------------------------------------
(* Texts and token counting *)

\* A text of n tokens.
Tok(n) == [i \in 1..n |-> "w"]

NoValue == "None"
NoArgs == <<>>

RECURSIVE SumSeq(_)
SumSeq(s) == IF s = <<>> THEN 0 ELSE Head(s) + SumSeq(Tail(s))

\* count_tokens: the number of tokens of the encoded text.
count_tokens(text) == Len(text)

\* count_messages_tokens: content tokens plus a fixed overhead per message.
count_messages_tokens(msgs) ==
    SumSeq([i \in 1..Len(msgs) |->
              count_tokens(msgs[i].content) + MessageOverhead])

-----------------------------------------------------------------------------
(* Memory: facts *)

FactKeys == {"k1", "k2"}
Importances == {1, 5}

\* Position of the entry with this key in the facts dict, 0 when absent.
FactIndex(fs, key) ==
    IF \E i \in 1..Len(fs) : fs[i].key = key
    THEN CHOOSE i \in 1..Len(fs) : fs[i].key = key
    ELSE 0

\* sorted(..., key=importance, reverse=True): stable, most important first.
RECURSIVE InsertByImportance(_, _)
InsertByImportance(sorted, f) ==
    IF sorted = <<>> THEN <<f>>
    ELSE IF Head(sorted).importance >= f.importance
         THEN <<Head(sorted)>> \o InsertByImportance(Tail(sorted), f)
         ELSE <<f>> \o sorted

RECURSIVE SortedFacts(_)
SortedFacts(fs) ==
    IF fs = <<>> THEN <<>>
    ELSE InsertByImportance(SortedFacts(SubSeq(fs, 1, Len(fs) - 1)), fs[Len(fs)])

RECURSIVE FactLines(_)
FactLines(fs) ==
    IF fs = <<>> THEN <<>>
    ELSE <<"-", Head(fs).key, ":">> \o Head(fs).value \o <<"\n">> \o FactLines(Tail(fs))

\* Memory._format_facts
format_facts(fs) ==
    IF fs = <<>> THEN <<>>
    ELSE LET sorted_facts == SortedFacts(fs)
             top == SubSeq(sorted_facts, 1,
                           IF Len(sorted_facts) < FactsLimit THEN Len(sorted_facts)
                           ELSE FactsLimit)
         IN  <<"Important", "context", "from", "previous", "conversations:", "\n">>
             \o FactLines(top)

-----------------------------------------------------------------------------
(* Memory: rendering the context *)

\* system_content of get_conversation_context
SystemContent(system_prompt, include_facts, fs) ==
    IF include_facts /\ fs # <<>>
    THEN system_prompt \o <<"\n\n">> \o format_facts(fs)
    ELSE system_prompt

\* remaining_tokens = max_context_tokens - used_tokens - 500
RemainingTokens(maxTokens, system_content) ==
    maxTokens - count_tokens(system_content) - ResponseReserve

\* Whether the loop stops at a message of msg_tokens tokens.
WouldExceed(used_tokens, msg_tokens, remaining_tokens) ==
    used_tokens + msg_tokens > remaining_tokens

\* The loop over reversed(conversation): the number of messages included,
\* counted from the newest, given that i messages are still to be visited.
RECURSIVE IncludedCount(_, _, _, _)
IncludedCount(conv, i, used_tokens, remaining_tokens) ==
    IF i = 0 THEN 0
    ELSE LET msg_tokens == count_tokens(conv[i].content)
         IN  IF WouldExceed(used_tokens, msg_tokens, remaining_tokens)
             THEN 0
             ELSE 1 + IncludedCount(conv, i - 1, used_tokens + msg_tokens,
                                    remaining_tokens)

\* Mutant of OmissionNotice: the notice counts one message too many.
OmissionNoticeOffByOne(cut_count) ==
    <<"[Earlier", "conversation", "history", "of", ToString(cut_count + 1), "messages",
      "omitted", "to", "fit", "context", "window]">>

\* The omission notice's content, as tokens.
OmissionNotice(cut_count) ==
    <<"[Earlier", "conversation", "history", "of", ToString(cut_count), "messages",
      "omitted", "to", "fit", "context", "window]">>

\* Mutant of InsertFirst: the entry goes to the end of the list.
InsertLast(list, entry) == Append(list, entry)

\* conversation_to_include.insert(0, entry)
InsertFirst(list, entry) == <<entry>> \o list

\* Mutant of IncludedEntries: an entry is cut down to its first token.
RECURSIVE IncludedEntriesTruncated(_, _)
IncludedEntriesTruncated(conv, k) ==
    IF k = 0 THEN <<>>
    ELSE LET msg == conv[Len(conv) - k + 1]
         IN  InsertFirst(IncludedEntriesTruncated(conv, k - 1),
                         [role |-> msg.role,
                          content |-> SubSeq(msg.content, 1,
                                             IF msg.content = <<>> THEN 0 ELSE 1)])

\* conversation_to_include after k passes of the loop over
\* reversed(conversation) that did not break: pass k visits the k-th newest
\* message and inserts its role and content at position 0.
RECURSIVE IncludedEntries(_, _)
IncludedEntries(conv, k) ==
    IF k = 0 THEN <<>>
    ELSE LET msg == conv[Len(conv) - k + 1]
         IN  InsertFirst(IncludedEntries(conv, k - 1),
                         [role |-> msg.role, content |-> msg.content])

\* Memory.get_conversation_context
get_conversation_context(maxTokens, conv, fs, system_prompt, include_facts) ==
    LET system_content == SystemContent(system_prompt, include_facts, fs)
        used_tokens == count_tokens(system_content)
        remaining_tokens == RemainingTokens(maxTokens, system_content)
        n == IncludedCount(conv, Len(conv), used_tokens, remaining_tokens)
        included == IncludedEntries(conv, n)
        cut_count == Len(conv) - Len(included)
        conversation_to_include ==
            IF Len(included) < Len(conv)
            THEN InsertFirst(included,
                             [role |-> "system", content |-> OmissionNotice(cut_count)])
            ELSE included
    IN  <<[role |-> "system", content |-> system_content]>> \o conversation_to_include

-----------------------------------------------------------------------------
(* Memory: state machine *)

Roles == {"user", "assistant"}
\* The budgets max_context_tokens - ResponseReserve of the model: none, one
\* token (less than a message of two), half, all.
Budgets == {0, 1, MaxBudget \div 2, MaxBudget}
Prompts == {Tok(n) : n \in 1..MaxPromptTokens}
StateKeys == {"topic"}
StateValues == {"a"}

\* Memory.__init__
InitMemory ==
    /\ max_context_tokens \in {ResponseReserve + b : b \in Budgets}
    /\ conversation = <<>>
    /\ facts = <<>>
    /\ working_state = [k \in {} |-> NoValue]
    /\ context = <<>>
    /\ context_args = NoArgs
    /\ renders = 0

\* Memory.add_message
add_message(role, content) ==
    /\ Len(conversation) < MaxMsgs
    /\ conversation' = Append(conversation, [role |-> role, content |-> content])
    /\ context' = <<>> /\ context_args' = NoArgs /\ renders' = 0
    /\ UNCHANGED <<max_context_tokens, facts, working_state>>
    /\ UNCHANGED <<brkVars, agentVars>>

\* Memory.add_fact: a new key is appended, an existing key is overwritten in place.
add_fact(key, value, importance) ==
    /\ LET entry == [key |-> key, value |-> value, importance |-> importance]
           i == FactIndex(facts, key)
       IN  IF i = 0
           THEN /\ Len(facts) < MaxFacts
                /\ facts' = Append(facts, entry)
           ELSE facts' = [facts EXCEPT ![i] = entry]
    /\ context' = <<>> /\ context_args' = NoArgs /\ renders' = 0
    /\ UNCHANGED <<max_context_tokens, conversation, working_state>>
    /\ UNCHANGED <<brkVars, agentVars>>

\* Memory.set_state
set_state(key, value) ==
    /\ working_state' = [k \in DOMAIN working_state \cup {key} |->
                           IF k = key THEN value ELSE working_state[k]]
    /\ context' = <<>> /\ context_args' = NoArgs /\ renders' = 0
    /\ UNCHANGED <<max_context_tokens, conversation, facts>>
    /\ UNCHANGED <<brkVars, agentVars>>

\* Mutant of Render: the log is cut down to the entries that were rendered
\* and the facts are left in the order of the digest.
RenderInPlace(system_prompt, include_facts) ==
    LET args == [system_prompt |-> system_prompt, include_facts |-> include_facts]
        rendered == get_conversation_context(max_context_tokens, conversation, facts,
                                             system_prompt, include_facts)
    IN  /\ context_args = args => renders < MaxRenders
        /\ context' = rendered
        /\ context_args' = args
        /\ renders' = IF context_args = args THEN renders + 1 ELSE 1
        /\ conversation' = SelectSeq(SubSeq(rendered, 2, Len(rendered)),
                                     LAMBDA m : m.role # "system")
        /\ facts' = SortedFacts(facts)
        /\ UNCHANGED <<max_context_tokens, working_state>>
        /\ UNCHANGED <<brkVars, agentVars>>

\* A call of Memory.get_conversation_context, its result kept in context.
Render(system_prompt, include_facts) ==
    LET args == [system_prompt |-> system_prompt, include_facts |-> include_facts]
    IN  /\ context_args = args => renders < MaxRenders
        /\ context' = get_conversation_context(max_context_tokens, conversation, facts,
                                               system_prompt, include_facts)
        /\ context_args' = args
        /\ renders' = IF context_args = args THEN renders + 1 ELSE 1
        /\ UNCHANGED <<max_context_tokens, conversation, facts, working_state>>
        /\ UNCHANGED <<brkVars, agentVars>>

NextMemory ==
    \/ \E role \in Roles, n \in 0..MaxMsgTokens : add_message(role, Tok(n))
    \/ \E key \in FactKeys, importance \in Importances : add_fact(key, Tok(1), importance)
    \/ \E key \in StateKeys, value \in StateValues : set_state(key, value)
    \/ \E system_prompt \in Prompts, include_facts \in BOOLEAN :
          Render(system_prompt, include_facts)

-----------------------------------------------------------------------------
(* CircuitBreaker, smart_retry and execute_tool_with_retry.                *)
(* Every caller is a thread of control; a step of a caller is one access   *)
(* to the shared breaker state or one step of the retry loop, so that      *)
(* callers sharing the global circuit_breaker interleave as threads do.    *)

Tools == {"get_weather", "query_database"}    \* the registry of execute_tool_with_retry
ToolNames == Tools \cup {"unknown_tool"}       \* the names a caller may ask for

DefaultFailureThreshold == 5
DefaultTimeoutSeconds == 60

\* What one call of a tool ends with: a result, or the exception it raises
\* ("Exception" is any exception that is neither Retryable nor Permanent).
ToolOutcomes(tool) ==
    IF tool = "get_weather"
    THEN {"ok", "RetryableError", "PermanentError", "Exception"}
    ELSE {"ok", "RetryableError", "Exception"}

(* dicts *)
EmptyDict == [k \in {} |-> 0]
Has(d, k) == k \in DOMAIN d
Get(d, k, default) == IF k \in DOMAIN d THEN d[k] ELSE default
\* Mutant of Put: one value for every key, not one per key.
PutAll(d, k, v) == [x \in DOMAIN d \cup {k} |-> v]
Put(d, k, v) == [x \in DOMAIN d \cup {k} |-> IF x = k THEN v ELSE d[x]]
Del(d, k) == [x \in DOMAIN d \ {k} |-> d[x]]

Min(a, b) == IF a < b THEN a ELSE b
Max(a, b) == IF a > b THEN a ELSE b

\* Mutant of ThresholdReached: the circuit opens at the threshold and is not
\* opened again by a failure beyond it.
ThresholdReachedExactly(count, threshold) == count = threshold

\* Mutant of ThresholdReached: the circuit opens one failure early.
ThresholdReachedEarly(count, threshold) == count >= threshold - 1

\* Mutant of ThresholdReached: the circuit opens one failure late.
ThresholdReachedStrict(count, threshold) == count > threshold

\* record_failure: "if self.failures[service] >= self.failure_threshold"
ThresholdReached(count, threshold) == count >= threshold

\* is_open: "datetime.now() - self.opened_at[service] > timedelta(seconds=...)"
TimedOut(t_now, t_opened, timeout) == t_now - t_opened > timeout

(* smart_retry: the retry(...) configuration *)

\* retry=retry_if_exception_type(RetryableError)
retry_if_exception_type(exc) == exc = "RetryableError"

\* Mutant of stop_after_attempt: the last attempt is not made.
stop_after_attempt_early(attempt_number) == attempt_number >= StopAfterAttempt - 1

\* stop=stop_after_attempt(3)
stop_after_attempt(attempt_number) == attempt_number >= StopAfterAttempt

RECURSIVE Pow2(_)
Pow2(n) == IF n <= 0 THEN 1 ELSE 2 * Pow2(n - 1)

\* wait=wait_exponential(multiplier=1, min=1, max=10): seconds slept after
\* the attempt of this number failed.
wait_exponential(attempt_number) ==
    Max(Max(0, WaitMin), Min(WaitMultiplier * Pow2(attempt_number - 1), WaitMax))

(* execute_tool_with_retry: the texts and exceptions it ends with *)

\* Mutant of UnavailableError: the fast-fail is raised as a retryable error.
UnavailableErrorRetryable == "RetryableError"

UnavailableError == "PermanentError"   \* line 214: raise PermanentError(... unavailable ...)
UnknownToolError == "PermanentError"   \* line 223: raise PermanentError(Unknown tool ...)

\* Mutant of Handler: every exception of the tool is handled as a retryable one.
HandlerRetryAll(result) ==
    IF result = "ok" THEN "record_success" ELSE "record_failure_and_raise"

\* Mutant of Handler: a successful call ends the invocation without record_success.
HandlerSkipsSuccess(result) ==
    CASE result = "ok" -> "return_unexpected_text"
      [] result = "RetryableError" -> "record_failure_and_raise"
      [] result = "PermanentError" -> "return_error_text"
      [] OTHER -> "return_unexpected_text"

\* The handler the try statement of lines 225-251 runs for what the tool call
\* ended with.
Handler(result) ==
    CASE result = "ok" -> "record_success"
      [] result = "RetryableError" -> "record_failure_and_raise"
      [] result = "PermanentError" -> "return_error_text"
      [] OTHER -> "return_unexpected_text"

NoOutcome == [kind |-> "none", exc |-> "", text |-> ""]

\* A caller that runs nothing.
Idle ==
    [op |-> "none", service |-> "none", pc |-> "idle",
     attempt_number |-> 0,     \* tenacity's attempt number of the current attempt
     reg |-> 0,                \* the count read by record_failure
     ret |-> FALSE,            \* what is_open returned
     elapsed |-> -1,           \* datetime.now() - opened_at[service] as line 84 of
                               \* the is_open call just made found it (-1: not read)
     calls |-> 0,              \* tool calls begun in this invocation
     results |-> <<>>,         \* what the tool calls of this invocation ended with
     recorded |-> 0,           \* record_failure calls made by this invocation
     checks |-> <<>>,          \* what the circuit checks of this invocation returned
     start_failures |-> 0,     \* the service's failure count when the invocation began
     start_opened_at |-> -1,   \* and its open timestamp then (-1: none)
     outcome |-> NoOutcome]    \* how the operation ended

Finish(c, kind, exc, text) ==
    [c EXCEPT !.pc = "done", !.outcome = [kind |-> kind, exc |-> exc, text |-> text]]

\* An exception leaves the current attempt: the retry decorator sleeps and
\* retries, or lets the exception out (reraise=True). A direct call of a
\* breaker method just raises.
Raised(c, exc, text) ==
    IF c.op = "execute" /\ retry_if_exception_type(exc)
       /\ ~stop_after_attempt(c.attempt_number)
    THEN [c EXCEPT !.pc = "sleep"]
    ELSE Finish(c, "raised", exc, text)

\* A breaker method returns to its caller.
Returned(c, method) ==
    IF c.op # "execute" THEN Finish(c, "returned", "", "None")
    ELSE CASE method = "is_open" ->
                [c EXCEPT !.pc = "ex212r", !.checks = Append(@, c.ret)]
           [] method = "record_success" -> Finish(c, "returned", "", "result")
           \* line 241: raise, the exception caught
           [] OTHER -> Raised(c, c.results[Len(c.results)], "tool error")

\* A breaker method raises KeyError (a key another caller has just deleted).
\* Inside the try statement it is caught by "except Exception".
KeyErrorIn(c, method) ==
    IF c.op = "execute" /\ method = "record_success"
    THEN Finish(c, "returned", "", "Unexpected error")
    ELSE Raised(c, "KeyError", "key")

InitBreaker(callers, ops) ==
    /\ failure_threshold \in 1..MaxThreshold
    /\ timeout_seconds \in 1..MaxTimeout
    /\ failures = EmptyDict
    /\ opened_at = EmptyDict
    /\ now = 0
    /\ th = [t \in callers |-> Idle]
    /\ ops_left = [t \in callers |-> ops]
    /\ consec = [s \in ToolNames |-> 0]
    /\ tripped_at = [s \in ToolNames |-> -1]
    /\ probes = [s \in ToolNames |-> -1]

Callers == DOMAIN th

\* A caller calls a method of the breaker directly.
CallBreaker(method, service) ==
    \E t \in Callers :
    /\ th[t].pc = "idle"
    /\ ops_left[t] # 0
    /\ ops_left' = [ops_left EXCEPT ![t] = IF @ > 0 THEN @ - 1 ELSE @]
    /\ method = "record_failure" => consec[service] < MaxFailures
    /\ th' = [th EXCEPT ![t] = [Idle EXCEPT !.op = method, !.service = service,
                !.start_failures = Get(failures, service, 0),
                !.start_opened_at = Get(opened_at, service, -1),
                !.pc = CASE method = "record_success" -> "rs65"
                         [] method = "record_failure" -> "rf72r"
                         [] OTHER -> "io80"]]
    /\ UNCHANGED <<failure_threshold, timeout_seconds, failures, opened_at, now,
                   consec, tripped_at, probes>>
    /\ UNCHANGED <<memVars, agentVars>>

(* CircuitBreaker.record_success *)

\* Mutant of ServiceInOpenedAt: record_success never clears the open marker.
ServiceInOpenedAtNever(d, service) == FALSE

\* line 66: "service in self.opened_at"
ServiceInOpenedAt(d, service) == Has(d, service)

\* line 65: self.failures[service] = 0
RecordSuccess65 ==
    \E t \in Callers :
    /\ th[t].pc = "rs65"
    /\ failures' = Put(failures, th[t].service, 0)
    /\ consec' = [consec EXCEPT ![th[t].service] = 0]
    /\ probes' = [probes EXCEPT ![th[t].service] = -1]
    /\ tripped_at' = [tripped_at EXCEPT ![th[t].service] = -1]
    /\ th' = [th EXCEPT ![t].pc = "rs66"]
    /\ UNCHANGED <<failure_threshold, timeout_seconds, opened_at, now>>
    /\ UNCHANGED <<memVars, agentVars, ops_left>>

\* line 66: if service in self.opened_at
RecordSuccess66 ==
    \E t \in Callers :
    /\ th[t].pc = "rs66"
    /\ th' = [th EXCEPT ![t] = IF ServiceInOpenedAt(opened_at, th[t].service)
                               THEN [@ EXCEPT !.pc = "rs67"]
                               ELSE Returned(@, "record_success")]
    /\ UNCHANGED <<failure_threshold, timeout_seconds, failures, opened_at, now,
                   consec, tripped_at, probes>>
    /\ UNCHANGED <<memVars, agentVars, ops_left>>

\* line 67: del self.opened_at[service]
RecordSuccess67 ==
    \E t \in Callers :
    /\ th[t].pc = "rs67"
    /\ IF Has(opened_at, th[t].service)
       THEN /\ opened_at' = Del(opened_at, th[t].service)
            /\ th' = [th EXCEPT ![t] = Returned(@, "record_success")]
       ELSE /\ opened_at' = opened_at
            /\ th' = [th EXCEPT ![t] = KeyErrorIn(@, "record_success")]
    /\ UNCHANGED <<failure_threshold, timeout_seconds, failures, now,
                   consec, tripped_at, probes>>
    /\ UNCHANGED <<memVars, agentVars, ops_left>>

(* CircuitBreaker.record_failure *)

\* line 72, right-hand side: self.failures.get(service, 0)
RecordFailure72Read ==
    \E t \in Callers :
    /\ th[t].pc = "rf72r"
    /\ th' = [th EXCEPT ![t].reg = Get(failures, th[t].service, 0), ![t].pc = "rf72w"]
    /\ UNCHANGED <<failure_threshold, timeout_seconds, failures, opened_at, now,
                   consec, tripped_at, probes>>
    /\ UNCHANGED <<memVars, agentVars, ops_left>>

\* line 72, the store: self.failures[service] = ... + 1
RecordFailure72Write ==
    \E t \in Callers :
    /\ th[t].pc = "rf72w"
    /\ failures' = Put(failures, th[t].service, th[t].reg + 1)
    /\ consec' = [consec EXCEPT ![th[t].service] = @ + 1]
    /\ th' = [th EXCEPT ![t].pc = "rf74", ![t].recorded = @ + 1]
    /\ UNCHANGED <<failure_threshold, timeout_seconds, opened_at, now,
                   tripped_at, probes>>
    /\ UNCHANGED <<memVars, agentVars, ops_left>>

\* line 74: if self.failures[service] >= self.failure_threshold
RecordFailure74 ==
    \E t \in Callers :
    /\ th[t].pc = "rf74"
    /\ IF ThresholdReached(failures[th[t].service], failure_threshold)
       THEN /\ th' = [th EXCEPT ![t].pc = "rf75"]
            /\ UNCHANGED <<tripped_at, probes>>
       ELSE /\ th' = [th EXCEPT ![t] = Returned(@, "record_failure")]
            /\ tripped_at' = [tripped_at EXCEPT ![th[t].service] =
                                IF consec[th[t].service] >= failure_threshold
                                THEN now ELSE -1]
            /\ probes' = [probes EXCEPT ![th[t].service] = -1]
    /\ UNCHANGED <<failure_threshold, timeout_seconds, failures, opened_at, now, consec>>
    /\ UNCHANGED <<memVars, agentVars, ops_left>>

\* line 75: self.opened_at[service] = datetime.now()
RecordFailure75 ==
    \E t \in Callers :
    /\ th[t].pc = "rf75"
    /\ opened_at' = Put(opened_at, th[t].service, now)
    /\ tripped_at' = [tripped_at EXCEPT ![th[t].service] =
                        IF consec[th[t].service] >= failure_threshold THEN now ELSE -1]
    /\ probes' = [probes EXCEPT ![th[t].service] = -1]
    /\ th' = [th EXCEPT ![t] = Returned(@, "record_failure")]
    /\ UNCHANGED <<failure_threshold, timeout_seconds, failures, now, consec>>
    /\ UNCHANGED <<memVars, agentVars, ops_left>>

(* CircuitBreaker.is_open *)

\* line 80: if service not in self.opened_at: return False
IsOpen80 ==
    \E t \in Callers :
    /\ th[t].pc = "io80"
    /\ th' = [th EXCEPT ![t] = IF Has(opened_at, th[t].service)
                               THEN [@ EXCEPT !.pc = "io84", !.elapsed = -1]
                               ELSE Returned([@ EXCEPT !.ret = FALSE, !.elapsed = -1],
                                             "is_open")]
    /\ UNCHANGED <<failure_threshold, timeout_seconds, failures, opened_at, now,
                   consec, tripped_at, probes>>
    /\ UNCHANGED <<memVars, agentVars, ops_left>>

\* line 84: the timeout test; line 90: return True
IsOpen84 ==
    \E t \in Callers :
    /\ th[t].pc = "io84"
    /\ th' = [th EXCEPT ![t] =
                IF ~Has(opened_at, th[t].service) THEN KeyErrorIn(@, "is_open")
                ELSE IF TimedOut(now, opened_at[th[t].service], timeout_seconds)
                     THEN [@ EXCEPT !.pc = "io87",
                                    !.elapsed = now - opened_at[th[t].service]]
                     ELSE Returned([@ EXCEPT !.ret = TRUE,
                                             !.elapsed = now - opened_at[th[t].service]],
                                   "is_open")]
    /\ UNCHANGED <<failure_threshold, timeout_seconds, failures, opened_at, now,
                   consec, tripped_at, probes>>
    /\ UNCHANGED <<memVars, agentVars, ops_left>>

\* lines 87-88: del self.opened_at[service]; return False
IsOpen87 ==
    \E t \in Callers :
    /\ th[t].pc = "io87"
    /\ IF Has(opened_at, th[t].service)
       THEN /\ opened_at' = Del(opened_at, th[t].service)
            /\ probes' = [probes EXCEPT ![th[t].service] = 0]
            /\ th' = [th EXCEPT ![t] = Returned([@ EXCEPT !.ret = FALSE], "is_open")]
       ELSE /\ UNCHANGED <<opened_at, probes>>
            /\ th' = [th EXCEPT ![t] = KeyErrorIn(@, "is_open")]
    /\ UNCHANGED <<failure_threshold, timeout_seconds, failures, now,
                   consec, tripped_at>>
    /\ UNCHANGED <<memVars, agentVars, ops_left>>

(* execute_tool_with_retry under smart_retry *)

\* A caller entering execute_tool_with_retry(tool_name, ...): tenacity's first
\* attempt starts with the circuit check of line 212.
BeginInvocation(tool_name) ==
    [Idle EXCEPT !.op = "execute", !.service = tool_name,
                 !.attempt_number = 1, !.pc = "io80",
                 !.start_failures = Get(failures, tool_name, 0),
                 !.start_opened_at = Get(opened_at, tool_name, -1)]

\* robust_agent line 351, called on its own: an invocation begins.
Execute(tool_name) ==
    \E t \in Callers :
    /\ th[t].pc = "idle"
    /\ ops_left[t] # 0
    /\ ops_left' = [ops_left EXCEPT ![t] = IF @ > 0 THEN @ - 1 ELSE @]
    /\ th' = [th EXCEPT ![t] = BeginInvocation(tool_name)]
    /\ UNCHANGED <<failure_threshold, timeout_seconds, failures, opened_at, now,
                   consec, tripped_at, probes>>
    /\ UNCHANGED <<memVars, agentVars>>

\* lines 212-227: is_open has returned; fail fast, reject an unknown tool,
\* or begin the call of the tool.
Dispatch ==
    \E t \in Callers :
    /\ th[t].pc = "ex212r"
    /\ IF th[t].ret
       THEN /\ th' = [th EXCEPT ![t] =
                        Raised([@ EXCEPT !.elapsed = -1], UnavailableError, "unavailable")]
            /\ probes' = probes
       ELSE IF th[t].service \notin Tools
       THEN /\ th' = [th EXCEPT ![t] =
                        Raised([@ EXCEPT !.elapsed = -1], UnknownToolError, "unknown tool")]
            /\ probes' = probes
       ELSE /\ th' = [th EXCEPT ![t].pc = "in_call", ![t].calls = @ + 1,
                                ![t].elapsed = -1]
            /\ probes' = [probes EXCEPT ![th[t].service] =
                            IF @ < 0 THEN @ ELSE Min(@ + 1, 2)]
    /\ UNCHANGED <<failure_threshold, timeout_seconds, failures, opened_at, now,
                   consec, tripped_at>>
    /\ UNCHANGED <<memVars, agentVars, ops_left>>

\* line 227 returns or raises; lines 229-251 handle it.
ToolReturns(result) ==
    \E t \in Callers :
    /\ th[t].pc = "in_call"
    /\ result \in ToolOutcomes(th[t].service)
    /\ result = "RetryableError" => consec[th[t].service] < MaxFailures
    /\ th' = [th EXCEPT ![t] =
                LET c == [@ EXCEPT !.results = Append(@, result)]
                IN  CASE Handler(result) = "record_success" -> [c EXCEPT !.pc = "rs65"]
                      [] Handler(result) = "record_failure_and_raise" ->
                            [c EXCEPT !.pc = "rf72r"]
                      [] Handler(result) = "return_error_text" ->
                            Finish(c, "returned", "", "Error")
                      [] OTHER -> Finish(c, "returned", "", "Unexpected error")]
    /\ UNCHANGED <<failure_threshold, timeout_seconds, failures, opened_at, now,
                   consec, tripped_at, probes>>
    /\ UNCHANGED <<memVars, agentVars, ops_left>>

\* The seconds one invocation sleeps when it makes n attempts beyond the first.
RECURSIVE TotalWait(_)
TotalWait(n) == IF n <= 0 THEN 0 ELSE wait_exponential(n) + TotalWait(n - 1)

\* The last value of the clock: MaxTime, or, while an agent loop runs (where
\* only the backoff delays move the clock), all that its invocations can sleep.
ClockLimit ==
    IF agent = "robust_agent"
    THEN MaxIterations * MaxBatch * TotalWait(StopAfterAttempt - 1)
    ELSE MaxTime

\* Mutant of RetryEntry: a retry resumes after the circuit check.
RetryEntryAfterCheck == "ex212r"

\* Where a retry begins: the decorator calls the whole function again, and
\* the function starts with the circuit check of line 212.
RetryEntry == "io80"

\* The decorator sleeps wait_exponential seconds, then starts the next attempt.
Backoff ==
    \E t \in Callers :
    /\ th[t].pc = "sleep"
    /\ now + wait_exponential(th[t].attempt_number) <= ClockLimit
    /\ now' = now + wait_exponential(th[t].attempt_number)
    /\ th' = [th EXCEPT ![t].attempt_number = @ + 1, ![t].pc = RetryEntry]
    /\ UNCHANGED <<failure_threshold, timeout_seconds, failures, opened_at,
                   consec, tripped_at, probes>>
    /\ UNCHANGED <<memVars, agentVars, ops_left>>

\* The caller has its result and is free for the next operation.
Return ==
    \E t \in Callers :
    /\ th[t].pc = "done"
    /\ th' = [th EXCEPT ![t] = Idle]
    /\ UNCHANGED <<failure_threshold, timeout_seconds, failures, opened_at, now,
                   consec, tripped_at, probes>>
    /\ UNCHANGED <<memVars, agentVars, ops_left>>

\* A second passes.
Tick ==
    /\ now < MaxTime
    /\ now' = now + 1
    /\ UNCHANGED <<failure_threshold, timeout_seconds, failures, opened_at, th,
                   consec, tripped_at, probes>>
    /\ UNCHANGED <<memVars, agentVars, ops_left>>

NextEngine ==
    \/ \E service \in Tools, method \in {"record_success", "record_failure", "is_open"} :
          CallBreaker(method, service)
    \/ RecordSuccess65
    \/ RecordSuccess66
    \/ RecordSuccess67
    \/ RecordFailure72Read
    \/ RecordFailure72Write
    \/ RecordFailure74
    \/ RecordFailure75
    \/ IsOpen80
    \/ IsOpen84
    \/ IsOpen87
    \/ \E tool_name \in ToolNames : Execute(tool_name)
    \/ Dispatch
    \/ \E result \in {"ok", "RetryableError", "PermanentError", "Exception"} :
          ToolReturns(result)
    \/ Backoff
    \/ Return
    \/ Tick

-----------------------------------------------------------------------------
(* The ReAct loop: react_agent (react-agent/agent.py) and robust_agent       *)
(* (tool-calling-agent/agent.py). The two loops are the same statement for   *)
(* statement; they differ in the executor a tool call is handed to:          *)
(* tool_executor, which is local to the call, or execute_tool_with_retry,    *)
(* which runs as caller LoopCaller of the engine above.                      *)

DefaultMaxIterations == 10

LoopCaller == 1

ReactTools == {"get_weather", "search_web"}     \* the registry of tool_executor

\* What a call of one of react-agent's tools ends with: get_weather raises
\* Exception on a timeout, and tools[tool_name](**arguments) raises TypeError
\* for arguments the tool does not take.
ReactToolOutcomes == {"ok", "Exception"}

\* The tool names a model response may carry, for either agent: a tool of
\* the registry (for robust_agent the one whose calls can end in every way)
\* and a name that is not in it.
RequestNames(a) ==
    IF a = "react_agent" THEN {"search_web", "unknown_tool"}
    ELSE {"get_weather", "unknown_tool"}

\* tool_call.function.arguments is a text the model wrote: JSON, or not.
ArgumentTexts == {"json", "not_json"}

\* json.loads(tool_call.function.arguments): the value, or JSONDecodeError.
json_loads(arguments) ==
    IF arguments = "json" THEN [raised |-> FALSE, exc |-> ""]
    ELSE [raised |-> TRUE, exc |-> "JSONDecodeError"]

\* message.tool_calls of a response that asks for tools: 1..MaxBatch requests.
ToolCallBatches(a) ==
    UNION {[1..n -> [name : RequestNames(a), arguments : ArgumentTexts]] : n \in 1..MaxBatch}

\* message.content of a response that asks for no tool.
AnswerTexts == {<<"answer", "a">>, <<"answer", "b">>}

NoToolCalls == <<>>      \* message.tool_calls is None

\* The responses client.chat.completions.create may give.
ModelResponses(a) ==
    [content : AnswerTexts, tool_calls : {NoToolCalls}]
        \cup [content : {<<>>}, tool_calls : ToolCallBatches(a)]

\* One entry of the history.
Message(role, content, tool_calls, tool_call_id) ==
    [role |-> role, content |-> content, tool_calls |-> tool_calls,
     tool_call_id |-> tool_call_id]

SystemPrompt == <<"system_prompt">>
LoopTask == <<"task">>

\* lines 167-170 / 307-310
InitialMessages ==
    <<Message("system", SystemPrompt, NoToolCalls, 0),
      Message("user", LoopTask, NoToolCalls, 0)>>

\* lines 233 / 368
NotCompleted(n) == <<"Error:", "not completed within", ToString(n), "iterations">>

NoAnswer == [kind |-> "none", value |-> <<>>]

\* Mutant of tool_executor: an exception of the tool is not caught.
tool_executor_uncaught(tool_name, result) ==
    IF tool_name \notin ReactTools
    THEN [raised |-> FALSE, text |-> <<"Error: Unknown tool", tool_name>>]
    ELSE IF result = "ok"
    THEN [raised |-> FALSE, text |-> <<"result of", tool_name>>]
    ELSE [raised |-> TRUE, text |-> <<result>>]

\* react-agent's tool_executor(tool_name, arguments), the tool's call ending
\* with result: the text returned.
tool_executor(tool_name, result) ==
    IF tool_name \notin ReactTools
    THEN [raised |-> FALSE, text |-> <<"Error: Unknown tool", tool_name>>]
    ELSE IF result = "ok"
    THEN [raised |-> FALSE, text |-> <<"result of", tool_name>>]
    ELSE [raised |-> FALSE, text |-> <<"Error executing", tool_name, result>>]

\* Mutant of robust_result: no try around execute_tool_with_retry.
robust_result_uncaught(outcome) ==
    IF outcome.kind = "raised"
    THEN [raised |-> TRUE, text |-> <<outcome.exc>>]
    ELSE [raised |-> FALSE, text |-> <<outcome.text>>]

\* robust_agent lines 350-356: the result of a tool call, given how
\* execute_tool_with_retry ended.
robust_result(outcome) ==
    IF outcome.kind = "raised"
    THEN [raised |-> FALSE,
          text |-> <<"Error:", outcome.text, "(all retries exhausted)">>]
    ELSE [raised |-> FALSE, text |-> <<outcome.text>>]

\* The state a run starts the loop in.
InitLoop(agents) ==
    /\ agent \in agents
    /\ max_iterations \in 0..MaxIterations
    /\ iteration = 0
    /\ messages = InitialMessages
    /\ pending = <<>>
    /\ lpc = "for"
    /\ answer = NoAnswer
    /\ responses = <<>>
    /\ observed = <<>>

\* No loop runs.
LoopUnused ==
    /\ agent = "none"
    /\ max_iterations = DefaultMaxIterations
    /\ iteration = 0
    /\ messages = <<>>
    /\ pending = <<>>
    /\ lpc = "none"
    /\ answer = NoAnswer
    /\ responses = <<>>
    /\ observed = <<>>

\* Mutant of ReturnValue: the message is returned, not its content.
ReturnValueMessage(response) == <<"message">> \o response.content

\* lines 230 / 366: return message.content
ReturnValue(response) == response.content

\* lines 178-206 and 226-230: the model is consulted. A response with tool
\* calls is appended to the history and its calls are to be executed; one
\* without ends the run with its content.
Reason(response) ==
    /\ lpc = "for"
    /\ iteration < max_iterations
    /\ response \in ModelResponses(agent)
    /\ responses' = Append(responses, response)
    /\ IF response.tool_calls # NoToolCalls
       THEN /\ messages' = Append(messages,
                   Message("assistant", response.content, response.tool_calls, 0))
            /\ pending' = [k \in 1..Len(response.tool_calls) |->
                              [id |-> k, name |-> response.tool_calls[k].name,
                               arguments |-> response.tool_calls[k].arguments]]
            /\ lpc' = "act"
            /\ answer' = answer
       ELSE /\ lpc' = "done"
            /\ answer' = [kind |-> "returned", value |-> ReturnValue(response)]
            /\ UNCHANGED <<messages, pending>>
    /\ UNCHANGED <<agent, max_iterations, iteration, observed>>
    /\ UNCHANGED <<memVars, brkVars, orchVars>>

\* What the loop does with the result of the tool call at the head of
\* pending: an exception ends the run, a text is appended as a tool entry
\* and the loop goes on to the next call or the next iteration.
Observe(r, tag) ==
    IF r.raised
    THEN /\ lpc' = "raised"
         /\ answer' = [kind |-> "raised", value |-> r.text]
         /\ UNCHANGED <<messages, pending, iteration, observed>>
    ELSE /\ messages' = Append(messages,
                Message("tool", r.text, NoToolCalls, Head(pending).id))
         /\ observed' = Append(observed,
                [iteration |-> iteration, id |-> Head(pending).id,
                 name |-> Head(pending).name, outcome |-> tag, content |-> r.text])
         /\ pending' = Tail(pending)
         /\ iteration' = IF Tail(pending) = <<>> THEN iteration + 1 ELSE iteration
         /\ lpc' = IF Tail(pending) = <<>> THEN "for" ELSE "act"
         /\ answer' = answer

\* lines 209-211 / 343-345 for a request whose arguments json.loads rejects:
\* the exception leaves the loop and the function.
ArgumentsRejected ==
    /\ lpc = "act"
    /\ json_loads(Head(pending).arguments).raised
    /\ lpc' = "raised"
    /\ answer' = [kind |-> "raised", value |-> <<json_loads(Head(pending).arguments).exc>>]
    /\ UNCHANGED <<agent, max_iterations, iteration, messages, pending, responses, observed>>
    /\ UNCHANGED <<memVars, brkVars, orchVars>>

\* react_agent lines 209-224: one tool call, executed by tool_executor.
ReactAct(result) ==
    /\ lpc = "act"
    /\ agent = "react_agent"
    /\ ~json_loads(Head(pending).arguments).raised
    /\ result \in ReactToolOutcomes
    /\ Observe(tool_executor(Head(pending).name, result),
               IF Head(pending).name \notin ReactTools THEN "unknown tool" ELSE result)
    /\ UNCHANGED <<agent, max_iterations, responses>>
    /\ UNCHANGED <<memVars, brkVars, orchVars>>

\* robust_agent lines 343-351: one tool call is handed to
\* execute_tool_with_retry.
RobustAct ==
    /\ lpc = "act"
    /\ agent = "robust_agent"
    /\ ~json_loads(Head(pending).arguments).raised
    /\ th[LoopCaller].pc = "idle"
    /\ th' = [th EXCEPT ![LoopCaller] = BeginInvocation(Head(pending).name)]
    /\ lpc' = "wait"
    /\ UNCHANGED <<agent, max_iterations, iteration, messages, pending, answer,
                   responses, observed>>
    /\ UNCHANGED <<failure_threshold, timeout_seconds, failures, opened_at, now,
                   consec, tripped_at, probes, ops_left>>
    /\ UNCHANGED <<memVars, orchVars>>

\* How an invocation of execute_tool_with_retry ended, for the history.
OutcomeTag(c) ==
    CASE c.outcome.kind = "returned" /\ c.outcome.text = "result" -> "ok"
      [] c.outcome.kind = "returned" -> c.results[Len(c.results)]
      [] c.outcome.text = "unavailable" -> "circuit open"
      [] c.outcome.text = "unknown tool" -> "unknown tool"
      [] OTHER -> "retries exhausted"

\* robust_agent lines 350-362: execute_tool_with_retry has returned or raised.
RobustObserve ==
    /\ lpc = "wait"
    /\ th[LoopCaller].pc = "done"
    /\ Observe(robust_result(th[LoopCaller].outcome), OutcomeTag(th[LoopCaller]))
    /\ th' = [th EXCEPT ![LoopCaller] = Idle]
    /\ UNCHANGED <<agent, max_iterations, responses>>
    /\ UNCHANGED <<failure_threshold, timeout_seconds, failures, opened_at, now,
                   consec, tripped_at, probes, ops_left>>
    /\ UNCHANGED <<memVars, orchVars>>

\* lines 233 / 368: range(max_iterations) is used up.
Exhausted ==
    /\ lpc = "for"
    /\ iteration >= max_iterations
    /\ lpc' = "exhausted"
    /\ answer' = [kind |-> "returned", value |-> NotCompleted(max_iterations)]
    /\ UNCHANGED <<agent, max_iterations, iteration, messages, pending, responses, observed>>
    /\ UNCHANGED <<memVars, brkVars, orchVars>>

\* The steps of one run. With a single caller record_success never finds an
\* open marker (a call is made only after is_open found or left none), so
\* RecordSuccess67 has no part in it.
NextReAct ==
    \/ \E response \in ModelResponses("react_agent") \cup ModelResponses("robust_agent") :
          Reason(response)
    \/ ArgumentsRejected
    \/ \E result \in ReactToolOutcomes : ReactAct(result)
    \/ RobustAct
    \/ RobustObserve
    \/ Exhausted
    \/ RecordSuccess65
    \/ RecordSuccess66
    \/ RecordFailure72Read
    \/ RecordFailure72Write
    \/ RecordFailure74
    \/ RecordFailure75
    \/ IsOpen80
    \/ IsOpen84
    \/ IsOpen87
    \/ Dispatch
    \/ \E result \in {"ok", "RetryableError", "PermanentError", "Exception"} :
          ToolReturns(result)
    \/ Backoff

-----------------------------------------------------------------------------
(* Orchestrator (multi-agent-orchestrator/orchestrator.py). A task is a      *)
(* sequence of words; a keyword occurs in it when it is a substring of the   *)
(* lower-cased text, that is, of one of its lower-cased words.               *)

AgentTypes == <<"research", "analysis", "writing">>     \* class AgentType

\* The words tasks are made of.
Vocabulary == {"Research", "update", "Compare", "why", "write", "recreate", "hello"}

\* str.lower() of a word.
Lower(word) ==
    CASE word = "Research" -> "research"
      [] word = "Compare" -> "compare"
      [] OTHER -> word

\* task.lower()
task_lower(t) == [i \in 1..Len(t) |-> Lower(t[i])]

\* "keyword in word" for the lower-cased words of Vocabulary: substring test.
Within(keyword, word) ==
    \/ keyword = word
    \/ keyword = "data" /\ word = "update"
    \/ keyword = "create" /\ word = "recreate"

\* lines 237-239: the keyword lists
ResearchWords == {"research", "find", "information", "facts", "data"}
AnalysisWords == {"analyze", "insights", "patterns", "why", "compare"}
WritingWords == {"write", "draft", "create", "summarize", "explain"}

\* any(word in task_lower for word in words)
AnyIn(words, t) == \E word \in words : \E i \in 1..Len(t) : Within(word, t[i])

needs_research(t) == AnyIn(ResearchWords, task_lower(t))
needs_analysis(t) == AnyIn(AnalysisWords, task_lower(t))
needs_writing(t) == AnyIn(WritingWords, task_lower(t))

Step(agent_type, step_task, depends_on) ==
    [agent |-> agent_type, task |-> step_task, depends_on |-> depends_on]

\* line 254: the analysis step's "depends_on"
AnalysisDependsOn(research) == IF research THEN <<"research">> ELSE <<>>

\* Mutant of WritingDependsOn: the writing step always names the analysis step.
WritingDependsOnAnalysis(research, analysis) == <<"analysis">>

\* Mutant of WritingDependsOn: the writing step names every earlier matched
\* category.
WritingDependsOnAllEarlier(research, analysis) ==
    (IF research THEN <<"research">> ELSE <<>>) \o (IF analysis THEN <<"analysis">> ELSE <<>>)

\* line 261: the writing step's "depends_on"
WritingDependsOn(research, analysis) ==
    IF analysis THEN <<"analysis">> ELSE (IF research THEN <<"research">> ELSE <<>>)

\* Mutant of DefaultSteps: the fallback is a research step.
DefaultStepsResearch(t) == <<Step("research", t, <<>>)>>

\* lines 265-269: the step used when no category matches. It has no
\* "depends_on" key, which step.get("depends_on", []) reads as [] (line 290);
\* so does the research step of lines 245-248.
DefaultSteps(t) == <<Step("writing", t, <<>>)>>

\* Orchestrator._create_plan(task): plan["steps"]
create_plan(t) ==
    LET steps ==
            (IF needs_research(t)
             THEN <<Step("research", <<"Research the following:">> \o t, <<>>)>>
             ELSE <<>>)
            \o (IF needs_analysis(t)
                THEN <<Step("analysis", <<"Analyze the following:">> \o t,
                            AnalysisDependsOn(needs_research(t)))>>
                ELSE <<>>)
            \o (IF needs_writing(t)
                THEN <<Step("writing", <<"Write a clear explanation of:">> \o t,
                            WritingDependsOn(needs_research(t), needs_analysis(t)))>>
                ELSE <<>>)
    IN  IF steps = <<>> THEN DefaultSteps(t) ELSE steps

\* What client.chat.completions.create returns to a specialist.
Payloads == {<<"payload", "x">>, <<"payload", "y">>}

NoData == <<>>     \* AgentResult.data = None

AgentResult(agent_type, success, data, error) ==
    [agent_type |-> agent_type, success |-> success, data |-> data, error |-> error]

\* SpecialistAgent.run: the model call returns a payload or raises.
SpecialistOutcomes(agent_type) ==
    {AgentResult(agent_type, TRUE, data, "None") : data \in Payloads}
        \cup {AgentResult(agent_type, FALSE, NoData, "error")}

\* Mutant of AgentContext: the result of a failed dependency is passed on too.
AgentContextAll(deps, res) ==
    LET used == {deps[i] : i \in {j \in 1..Len(deps) : Has(res, deps[j])}}
    IN  [dep \in used |-> res[dep].data]

\* lines 290-295: agent_context
AgentContext(deps, res) ==
    LET used == {deps[i] : i \in {j \in 1..Len(deps) :
                                    Has(res, deps[j]) /\ res[deps[j]].success}}
    IN  [dep \in used |-> res[dep].data]

\* Mutant of AfterStep: a failed step ends the execution of the plan.
AfterStepAbort(index, n, result) == IF result.success THEN index + 1 ELSE n

\* line 283: "for step in plan['steps']" goes on to the next step, whatever
\* the result of this one.
AfterStep(index, n, result) == index + 1

AllFailedMessage == <<"Error: All agents failed to produce results.">>

RECURSIVE JoinSections(_)
JoinSections(sections) ==
    IF sections = <<>> THEN <<>>
    ELSE IF Len(sections) = 1 THEN sections[1]
    ELSE sections[1] \o <<"\n\n">> \o JoinSections(Tail(sections))

\* Mutant of synthesize_results: no test for "no successful result" (lines
\* 323-324 left out).
synthesize_results_unguarded(res) ==
    LET successful == {a \in DOMAIN res : res[a].success}
        sections ==
            (IF "research" \in successful
             THEN <<(<<"## Research Findings">> \o res["research"].data)>> ELSE <<>>)
            \o (IF "analysis" \in successful
                THEN <<(<<"## Analysis">> \o res["analysis"].data)>> ELSE <<>>)
    IN  IF "writing" \in successful THEN res["writing"].data
        ELSE JoinSections(sections)

\* Orchestrator._synthesize_results(original_task, results)
synthesize_results(res) ==
    LET successful == {a \in DOMAIN res : res[a].success}
        sections ==
            (IF "research" \in successful
             THEN <<(<<"## Research Findings">> \o res["research"].data)>> ELSE <<>>)
            \o (IF "analysis" \in successful
                THEN <<(<<"## Analysis">> \o res["analysis"].data)>> ELSE <<>>)
    IN  IF successful = {} THEN AllFailedMessage
        ELSE IF "writing" \in successful THEN res["writing"].data
        ELSE JoinSections(sections)

\* The tasks given to Orchestrator.run.
Tasks == UNION {[1..n -> Vocabulary] : n \in 0..MaxTaskWords}

NoAnswerYet == <<"None">>

\* An Orchestrator that was given no task yet.
InitOrch ==
    /\ task = <<>>
    /\ plan = <<>>
    /\ step_index = 0
    /\ results = EmptyDict
    /\ contexts = <<>>
    /\ final_answer = NoAnswerYet
    /\ opc = "idle"

\* No orchestrator runs.
OrchUnused ==
    /\ task = <<>>
    /\ plan = <<>>
    /\ step_index = 0
    /\ results = EmptyDict
    /\ contexts = <<>>
    /\ final_answer = NoAnswerYet
    /\ opc = "none"

\* Orchestrator.run lines 203 and 280-281: the plan is made and its
\* execution begins.
Plan(t) ==
    /\ opc \in {"idle", "returned"}
    /\ task' = t
    /\ plan' = create_plan(t)
    /\ step_index' = 0
    /\ results' = EmptyDict
    /\ contexts' = <<>>
    /\ final_answer' = NoAnswerYet
    /\ opc' = "executing"
    /\ UNCHANGED <<memVars, brkVars, loopVars>>

\* _execute_plan lines 283-305: one step of the plan.
ExecuteStep(result) ==
    /\ opc = "executing"
    /\ step_index < Len(plan)
    /\ LET step == plan[step_index + 1]
           agent_context == AgentContext(step.depends_on, results)
       IN  /\ result \in SpecialistOutcomes(step.agent)
           /\ contexts' = Append(contexts,
                  [agent |-> step.agent, task |-> step.task, context |-> agent_context,
                   result |-> result])
           /\ results' = Put(results, step.agent, result)
           /\ step_index' = AfterStep(step_index, Len(plan), result)
    /\ UNCHANGED <<task, plan, final_answer, opc>>
    /\ UNCHANGED <<memVars, brkVars, loopVars>>

\* Orchestrator.run lines 213-222: the plan is executed; the answer is
\* synthesized and returned.
Synthesize ==
    /\ opc = "executing"
    /\ step_index >= Len(plan)
    /\ final_answer' = synthesize_results(results)
    /\ opc' = "returned"
    /\ UNCHANGED <<task, plan, step_index, results, contexts>>
    /\ UNCHANGED <<memVars, brkVars, loopVars>>

NextOrch ==
    \/ \E t \in Tasks : Plan(t)
    \/ \E result \in UNION {SpecialistOutcomes(AgentTypes[i]) : i \in 1..3} :
          ExecuteStep(result)
    \/ Synthesize

-----------------------------------------------------------------------------
(* Specifications *)

\* The breaker with no caller at work.
BreakerUnused ==
    /\ failure_threshold = DefaultFailureThreshold
    /\ timeout_seconds = DefaultTimeoutSeconds
    /\ failures = EmptyDict
    /\ opened_at = EmptyDict
    /\ now = 0
    /\ th = [t \in {1} |-> Idle]
    /\ ops_left = [t \in {1} |-> 0]
    /\ consec = [s \in ToolNames |-> 0]
    /\ tripped_at = [s \in ToolNames |-> -1]
    /\ probes = [s \in ToolNames |-> -1]

\* The memory of one session; the breaker is idle.
InitMemorySession ==
    /\ InitMemory
    /\ BreakerUnused
    /\ LoopUnused
    /\ OrchUnused

SpecMemory == InitMemorySession /\ [][NextMemory]_vars

\* The memory while the engine runs: untouched.
MemoryUnused ==
    /\ max_context_tokens = ResponseReserve + MaxBudget
    /\ conversation = <<>>
    /\ facts = <<>>
    /\ working_state = [k \in {} |-> NoValue]
    /\ context = <<>>
    /\ context_args = NoArgs
    /\ renders = 0

\* One caller: the single-threaded agent.
Init == InitBreaker({1}, -1) /\ MemoryUnused /\ LoopUnused /\ OrchUnused
Spec == Init /\ [][NextEngine]_vars

\* Two callers sharing the global circuit_breaker.
InitConc == InitBreaker({1, 2}, MaxConcOps) /\ MemoryUnused /\ LoopUnused /\ OrchUnused
SpecConc == InitConc /\ [][NextEngine]_vars

\* One run of react_agent or of robust_agent. The loop is single-threaded and
\* every external call completes or fails, so the run keeps taking steps.
InitReAct ==
    /\ InitBreaker({LoopCaller}, 0)
    /\ InitLoop({"react_agent", "robust_agent"})
    /\ MemoryUnused
    /\ OrchUnused
SpecReAct == InitReAct /\ [][NextReAct]_vars /\ WF_vars(NextReAct)

\* One Orchestrator, given one task after another.
InitOrchestrator ==
    /\ InitOrch
    /\ BreakerUnused
    /\ MemoryUnused
    /\ LoopUnused
SpecOrch == InitOrchestrator /\ [][NextOrch]_vars

-----------------------------------------------------------------------------
(* Claims about the context render *)

\* The budget a render has to respect: max_context_tokens - response reserve.
Budget == max_context_tokens - ResponseReserve

Rendered == context # <<>>

\* The rendered sequence holds an omission notice (its second entry).
HasNotice == Len(context) >= 2 /\ context[2].role = "system"

\* Number of conversation entries of the rendered sequence, and of those left out.
NIncluded == Len(context) - 1 - (IF HasNotice THEN 1 ELSE 0)
NExcluded == Len(conversation) - NIncluded

\* C1: the token count of every rendered sequence, measured over all its
\* entries with the per-entry overhead, is at most max_context_tokens minus the
\* response reserve.
C1_RenderWithinBudget ==
    Rendered => count_messages_tokens(context) <= Budget

\* C1, restricted to renders whose system entry alone fits the budget: the
\* overshoot does not rest on an oversized prompt.
C1_WithinBudgetWhenSystemFits ==
    (Rendered /\ count_messages_tokens(<<context[1]>>) <= Budget)
        => count_messages_tokens(context) <= Budget

\* The sequence a render would return had it included one more entry, the
\* newest excluded one: system entry, notice if entries remain excluded,
\* that entry, the included entries.
OneMoreIncluded ==
    <<context[1]>>
    \o (IF NExcluded > 1
        THEN <<[role |-> "system", content |-> OmissionNotice(NExcluded - 1)]>>
        ELSE <<>>)
    \o <<conversation[NExcluded]>>
    \o SubSeq(context, Len(context) - NIncluded + 1, Len(context))

\* C2: the included entries are the most recent contiguous suffix of the log
\* that fits: they are the last NIncluded entries of the log in order, and the
\* entry just before them, if any, is one whose addition would exceed the budget.
C2_MostRecentSuffixThatFits ==
    Rendered =>
        /\ NIncluded \in 0..Len(conversation)
        /\ \A j \in 1..NIncluded :
              /\ context[Len(context) - NIncluded + j].role
                    = conversation[NExcluded + j].role
              /\ context[Len(context) - NIncluded + j].content
                    = conversation[NExcluded + j].content
        /\ NExcluded > 0 => count_messages_tokens(OneMoreIncluded) > Budget

-----------------------------------------------------------------------------
(* Claims about the circuit breaker and the tool executor *)

\* The circuit of the service is OPEN and its timeout has not elapsed.
OpenNow(service) ==
    /\ Has(opened_at, service)
    /\ ~TimedOut(now, opened_at[service], timeout_seconds)

\* is_open has just returned to caller t, called directly or by the executor.
IsOpenReturned(t) ==
    \/ th[t].pc = "ex212r"
    \/ th[t].op = "is_open" /\ th[t].pc = "done" /\ th[t].outcome.kind = "returned"

\* An invocation of execute_tool_with_retry by caller t has ended.
Ended(t) == th[t].op = "execute" /\ th[t].pc = "done"

OnlyRetryable(rs) ==
    rs # <<>> /\ \A i \in 1..Len(rs) : rs[i] = "RetryableError"

\* C3: after failure_threshold (or more) consecutive record_failure calls
\* for a service with no record_success in between, is_open returns true
\* while less than timeout_seconds have passed since the last of them; with
\* fewer consecutive failures is_open returns false.
C3_OpenAfterThresholdFailures ==
    \A t \in Callers :
        IsOpenReturned(t) =>
            LET service == th[t].service
            IN  /\ (/\ consec[service] >= failure_threshold
                    /\ tripped_at[service] >= 0
                    /\ now - tripped_at[service] < timeout_seconds)
                       => th[t].ret = TRUE
                /\ consec[service] < failure_threshold => th[t].ret = FALSE

\* C3 witness: with a threshold of 2 or more, a direct is_open call returned
\* true for a service with failure_threshold consecutive failures.
C3_Witness ==
    \E t \in Callers :
        /\ th[t].op = "is_open" /\ th[t].pc = "done" /\ th[t].ret = TRUE
        /\ failure_threshold >= 2
        /\ consec[th[t].service] = failure_threshold

\* C4: once is_open has cleared the open marker after the timeout, at most
\* one capability call is let through until an outcome is recorded on the
\* breaker (record_success or record_failure).
C4_SingleProbe ==
    \A service \in ToolNames : probes[service] <= 1

\* C5: an invocation whose first circuit check finds the circuit OPEN and not
\* timed out ends at once with the permanent 'unavailable' failure: no tool
\* call, no retry, failure count and open timestamp as they were.
C5_FastFailWhenOpen ==
    \A t \in Callers :
        LET c == th[t] IN
        /\ (c.pc = "ex212r" /\ c.attempt_number = 1 /\ OpenNow(c.service))
              => c.checks = <<TRUE>>
        /\ (c.op = "execute" /\ c.checks # <<>> /\ c.checks[1] = TRUE) =>
              /\ c.pc \in {"ex212r", "done"}
              /\ c.attempt_number = 1 /\ Len(c.checks) = 1
              /\ c.calls = 0 /\ c.results = <<>> /\ c.recorded = 0
              /\ Get(failures, c.service, 0) = c.start_failures
              /\ Get(opened_at, c.service, -1) = c.start_opened_at
              /\ c.start_opened_at >= 0
              /\ c.pc = "done" =>
                    c.outcome = [kind |-> "raised", exc |-> "PermanentError",
                                 text |-> "unavailable"]

\* C5 witness: an invocation has ended with the 'unavailable' failure.
C5_Witness ==
    \E t \in Callers :
        /\ Ended(t) /\ th[t].checks = <<TRUE>>
        /\ th[t].outcome.text = "unavailable"
        /\ th[t].start_failures >= failure_threshold

\* C6 as claimed: an invocation that starts with the circuit not open and
\* whose tool raises only RetryableError makes exactly 3 attempts, records a
\* failure for each and ends with the last RetryableError.
C6_ThreeAttemptsAlways ==
    \A t \in Callers :
        (/\ Ended(t) /\ th[t].checks # <<>> /\ th[t].checks[1] = FALSE
         /\ OnlyRetryable(th[t].results)) =>
            /\ th[t].calls = StopAfterAttempt
            /\ Len(th[t].results) = StopAfterAttempt
            /\ th[t].recorded = StopAfterAttempt
            /\ th[t].outcome.kind = "raised" /\ th[t].outcome.exc = "RetryableError"

\* C6 as amended: the same, for the invocations that start with a failure
\* count of at most failure_threshold - 3, so that the circuit is not opened
\* by the first two failures; in every case at most 3 attempts are made and a
\* failure is recorded for each.
C6_ThreeAttemptsWhileClosed ==
    \A t \in Callers :
        (/\ Ended(t) /\ th[t].checks # <<>> /\ th[t].checks[1] = FALSE
         /\ OnlyRetryable(th[t].results)) =>
            /\ th[t].calls <= StopAfterAttempt
            /\ th[t].recorded = Len(th[t].results)
            /\ th[t].start_failures + 2 < failure_threshold =>
                  /\ th[t].calls = StopAfterAttempt
                  /\ Len(th[t].results) = StopAfterAttempt
                  /\ Get(failures, th[t].service, 0)
                        = th[t].start_failures + StopAfterAttempt
                  /\ th[t].outcome.kind = "raised"
                  /\ th[t].outcome.exc = "RetryableError"

\* C6 witness: three attempts, starting from a failure count left by an
\* earlier invocation.
C6_Witness ==
    \E t \in Callers :
        /\ Ended(t) /\ OnlyRetryable(th[t].results)
        /\ Len(th[t].results) = StopAfterAttempt
        /\ th[t].start_failures > 0
        /\ th[t].start_failures + 2 < failure_threshold
        /\ th[t].outcome.exc = "RetryableError"

\* C7: a tool call that raises PermanentError or an unclassified exception
\* is the last call of its invocation, which ends by returning the failure
\* as text; raised on the first attempt, the tool is called exactly once.
C7_NoRetryOfPermanent ==
    \A t \in Callers :
        \A i \in 1..Len(th[t].results) :
            th[t].results[i] \in {"PermanentError", "Exception"} =>
                /\ i = Len(th[t].results)
                /\ th[t].calls = i
                /\ th[t].pc = "done"
                /\ th[t].outcome.kind = "returned"
                /\ th[t].outcome.text =
                      (IF th[t].results[i] = "PermanentError" THEN "Error"
                       ELSE "Unexpected error")

\* C7 witness: a first attempt raised PermanentError.
C7_Witness ==
    \E t \in Callers :
        /\ Ended(t) /\ th[t].results = <<"PermanentError">>
        /\ th[t].calls = 1 /\ th[t].outcome.text = "Error"

\* C8: an attempt that ends in PermanentError is recorded on the breaker:
\* the failure count of the service has been incremented for it.
C8_PermanentFailureRecorded ==
    \A t \in Callers :
        (/\ Ended(t) /\ th[t].results # <<>>
         /\ th[t].results[Len(th[t].results)] = "PermanentError") =>
            /\ th[t].recorded = Len(th[t].results)
            /\ Get(failures, th[t].service, 0)
                  = th[t].start_failures + Len(th[t].results)

\* C9: two callers that concurrently record a failure for the same service
\* lose no update: once both calls are over the failure count is the number
\* of failures recorded, and the circuit is open if it reaches the threshold.
C9_NoLostUpdate ==
    \A t1, t2 \in Callers :
        (/\ t1 # t2
         /\ th[t1].op = "record_failure" /\ th[t1].pc = "done"
         /\ th[t2].op = "record_failure" /\ th[t2].pc = "done"
         /\ th[t1].service = th[t2].service) =>
            LET service == th[t1].service
            IN  /\ Get(failures, service, 0) = consec[service]
                /\ Get(failures, service, 0) >= failure_threshold
                      => Has(opened_at, service)

\* C10: with callers that all run invocations of the executor, no tool call
\* begins while the circuit of its service is OPEN and not timed out.
C10_NoCallWhileOpen ==
    [][(\A u \in Callers : th[u].op = "execute") =>
          \A t \in Callers :
              (th[t].pc = "ex212r" /\ th'[t].pc = "in_call")
                  => ~OpenNow(th[t].service)]_vars

-----------------------------------------------------------------------------
(* Claims about the ReAct loop *)

\* The run has ended: with a direct answer, with the iteration ceiling, or
\* with an exception leaving the function.
LoopEnded == lpc \in {"done", "exhausted", "raised"}

\* Every response the model gave so far asked for at least one tool call.
AlwaysRequestsTools ==
    \A i \in 1..Len(responses) : responses[i].tool_calls # NoToolCalls

\* The tool-role entries of the history, in order.
ToolEntries == SelectSeq(messages, LAMBDA m : m.role = "tool")

RECURSIVE RequestsIn(_)
RequestsIn(rs) ==
    IF rs = <<>> THEN 0 ELSE Len(Head(rs).tool_calls) + RequestsIn(Tail(rs))

\* C11: a run in which the model asks for at least one tool call at every
\* reasoning step ends after exactly max_iterations model calls, not in
\* DONE, and returns the "not completed within N iterations" text as an
\* ordinary value (it does not raise).
C11_ExhaustsAfterMaxIterations ==
    (LoopEnded /\ AlwaysRequestsTools) =>
        /\ Len(responses) = max_iterations
        /\ lpc = "exhausted"
        /\ answer = [kind |-> "returned", value |-> NotCompleted(max_iterations)]

\* The same for the runs that json.loads does not end (it holds).
C11_ExhaustsUnlessArgumentsRejected ==
    (LoopEnded /\ lpc # "raised" /\ AlwaysRequestsTools) =>
        /\ Len(responses) = max_iterations
        /\ lpc = "exhausted"
        /\ answer = [kind |-> "returned", value |-> NotCompleted(max_iterations)]

\* C12: the first response of the model with no tool call ends the run in
\* DONE: it is the last response consulted, the value returned is exactly
\* its text, the history holds nothing but what the earlier responses put
\* there, and from then on no model call, no tool call and no append to the
\* history happens.
C12_DirectAnswerEndsRun ==
    /\ [](\A i \in 1..Len(responses) :
            responses[i].tool_calls = NoToolCalls =>
                /\ i = Len(responses)
                /\ lpc = "done"
                /\ answer = [kind |-> "returned", value |-> responses[i].content]
                /\ pending = <<>>
                /\ th[LoopCaller].pc = "idle"
                /\ Len(messages) = 2 + (i - 1) + Len(observed)
                /\ Len(observed) = RequestsIn(responses))
    /\ [][lpc = "done" => UNCHANGED <<messages, responses, observed, th, lpc, answer>>]_vars

C12_Witness ==
    /\ lpc = "done"
    /\ Len(responses) >= 2
    /\ Len(observed) >= 2

C14_AlwaysReturnsText ==
    LoopEnded => (answer.kind = "returned" /\ answer.value # <<>>)

\* The same for Orchestrator.run, under SpecOrch (it holds).
C14_OrchestratorReturnsText ==
    opc = "returned" => (final_answer # NoAnswerYet /\ final_answer # <<>>)

\* C15: every run ends in DONE or in EXHAUSTED; no invocation of the
\* executor makes more than stop_after_attempt (3) calls of the tool and no
\* run consults the model more than max_iterations times.
C15_RunReachesDoneOrExhausted ==
    /\ [](th[LoopCaller].calls <= StopAfterAttempt /\ Len(responses) <= max_iterations)
    /\ <>(lpc \in {"done", "exhausted"})

\* Every run ends, and within the two ceilings (it holds).
C15_RunEnds ==
    /\ [](th[LoopCaller].calls <= StopAfterAttempt /\ Len(responses) <= max_iterations)
    /\ <>LoopEnded

-----------------------------------------------------------------------------
(* Claims about the Orchestrator *)

\* The categories the task matches, in the order research, analysis, writing.
Matched ==
    (IF needs_research(task) THEN <<"research">> ELSE <<>>)
    \o (IF needs_analysis(task) THEN <<"analysis">> ELSE <<>>)
    \o (IF needs_writing(task) THEN <<"writing">> ELSE <<>>)

Planned == opc \in {"executing", "returned"}

\* The identifiers in a step's depends_on, as a set.
DependsOn(i) == {plan[i].depends_on[j] : j \in 1..Len(plan[i].depends_on)}

\* The agents of the steps before step i.
Earlier(i) == {plan[k].agent : k \in 1..(i - 1)}

\* C16: the plan is in topological order: every identifier in the
\* depends_on of a step is the agent of a step at a strictly earlier index.
C16_PlanTopological ==
    Planned => \A i \in 1..Len(plan) : DependsOn(i) \subseteq Earlier(i)

C16_Witness ==
    /\ Planned
    /\ Len(plan) = 3
    /\ DependsOn(2) # {}
    /\ DependsOn(3) # {}

\* C17: the depends_on of every step is exactly the set of all the matched
\* categories before it: with research, analysis and writing all matched,
\* the writing step depends on research and on analysis.
C17_DependsOnAllEarlier ==
    Planned => \A i \in 1..Len(plan) : DependsOn(i) = Earlier(i)

\* C17, amended: the depends_on of every step but the first is exactly the
\* step just before it (the nearest earlier matched category), and that of
\* the first step is empty; with all three categories matched the writing
\* step depends on analysis only.
C17_DependsOnPreviousStep ==
    Planned => \A i \in 1..Len(plan) :
        plan[i].depends_on = IF i = 1 THEN <<>> ELSE <<plan[i - 1].agent>>

C17_Witness ==
    /\ Planned
    /\ Matched = <<"research", "analysis", "writing">>
    /\ plan[3].depends_on = <<"analysis">>

\* C18: the plan has exactly one step per matched category and none for
\* another, in the order research, analysis, writing; with no category
\* matched it is a single writing step over the raw task, with no
\* dependency; with only writing matched it is a single writing step with
\* no dependency, and the answer returned is that step's payload (the
\* fixed failure message when the step failed and left none).
C18_OneStepPerMatchedCategory ==
    Planned =>
        /\ Matched # <<>> =>
              /\ Len(plan) = Len(Matched)
              /\ \A i \in 1..Len(plan) : plan[i].agent = Matched[i]
        /\ Matched = <<>> => plan = <<Step("writing", task, <<>>)>>
        /\ Matched = <<"writing">> =>
              /\ Len(plan) = 1
              /\ plan[1].agent = "writing"
              /\ plan[1].depends_on = <<>>
              /\ opc = "returned" =>
                    final_answer = IF results["writing"].success
                                   THEN contexts[1].result.data
                                   ELSE AllFailedMessage

C18_Witness ==
    /\ opc = "returned"
    /\ Matched = <<"writing">>
    /\ results["writing"].success
    /\ final_answer \in Payloads

\* The fallback plan was executed as well.
C18_WitnessFallback ==
    /\ opc = "returned"
    /\ Matched = <<>>
    /\ task # <<>>
    /\ final_answer \in Payloads

\* C19: a failing step never ends the execution of the plan: the
\* specialists are run for the steps of the plan, one after the other in
\* plan order, every step run has exactly one AgentResult recorded (the one
\* its specialist gave, success false when it failed), and when the answer
\* is returned every step of the plan was run.
C19_EveryStepExecuted ==
    Planned =>
        /\ Len(contexts) = step_index
        /\ step_index <= Len(plan)
        /\ \A k \in 1..Len(contexts) :
              /\ contexts[k].agent = plan[k].agent
              /\ contexts[k].task = plan[k].task
              /\ Has(results, plan[k].agent)
              /\ results[plan[k].agent] = contexts[k].result
        /\ DOMAIN results = {plan[k].agent : k \in 1..step_index}
        /\ Cardinality(DOMAIN results) = step_index
        /\ opc = "returned" => step_index = Len(plan)

C19_Witness ==
    /\ opc = "returned"
    /\ Len(plan) = 3
    /\ ~results["research"].success
    /\ ~results["analysis"].success
    /\ results["writing"].success

\* C20: the context a step's specialist is run with holds exactly the
\* payloads of the steps in its depends_on that succeeded: nothing for a
\* failed dependency, the payload for a successful one, nothing for any
\* other step.
C20_ContextFromSuccessfulDependencies ==
    Planned => \A k \in 1..Len(contexts) :
        /\ DOMAIN contexts[k].context =
              {d \in DependsOn(k) : Has(results, d) /\ results[d].success}
        /\ \A d \in DOMAIN contexts[k].context :
              /\ contexts[k].context[d] = results[d].data
              /\ contexts[k].context[d] \in Payloads

C20_Witness ==
    /\ Len(contexts) = 3
    /\ results["research"].success
    /\ DOMAIN contexts[2].context = {"research"}
    /\ ~results["analysis"].success
    /\ DOMAIN contexts[3].context = {}

\* The step of this agent type was run and its specialist succeeded.
Succeeded(a) == \E k \in 1..Len(contexts) : contexts[k].agent = a /\ contexts[k].result.success

\* The payload the specialist of this agent type gave.
PayloadOf(a) ==
    contexts[CHOOSE k \in 1..Len(contexts) : contexts[k].agent = a].result.data

ResearchSection == <<"## Research Findings">> \o PayloadOf("research")
AnalysisSection == <<"## Analysis">> \o PayloadOf("analysis")

\* C21: the answer returned is exactly the writing step's payload when that
\* step succeeded; otherwise it is the payloads of the successful research
\* and analysis steps, each under its heading, research before analysis;
\* when every step failed it is the fixed failure message; it is never the
\* empty text.
C21_Synthesis ==
    opc = "returned" =>
        /\ final_answer # <<>>
        /\ Succeeded("writing") => final_answer = PayloadOf("writing")
        /\ (~Succeeded("writing") /\ Succeeded("research") /\ Succeeded("analysis")) =>
              final_answer = ResearchSection \o <<"\n\n">> \o AnalysisSection
        /\ (~Succeeded("writing") /\ Succeeded("research") /\ ~Succeeded("analysis")) =>
              final_answer = ResearchSection
        /\ (~Succeeded("writing") /\ ~Succeeded("research") /\ Succeeded("analysis")) =>
              final_answer = AnalysisSection
        /\ (~Succeeded("writing") /\ ~Succeeded("research") /\ ~Succeeded("analysis")) =>
              final_answer = AllFailedMessage

\* The writing step failed after research and analysis succeeded.
C21_Witness ==
    /\ opc = "returned"
    /\ Len(plan) = 3
    /\ Succeeded("research") /\ Succeeded("analysis") /\ ~Succeeded("writing")
    /\ Len(final_answer) > 2

(***************************************************************************)
(* Claims about the circuit breaker's states and transitions               *)
(***************************************************************************)

\* C22 as stated: once timeout_seconds have elapsed since the circuit
\* opened, the next is_open check removes the open marker and returns FALSE,
\* so the call is allowed through.
C22_HalfOpenAtTimeout ==
    \A t \in Callers :
        (IsOpenReturned(t) /\ th[t].elapsed >= timeout_seconds)
            => (~th[t].ret /\ ~Has(opened_at, th[t].service))

\* What is_open does instead (line 84 compares with ">"): the transition
\* happens only when strictly more than timeout_seconds have elapsed. Then the
\* marker is removed and the check returns FALSE; up to and including
\* timeout_seconds the check returns TRUE and the marker stays.
C22_HalfOpenAfterTimeout ==
    \A t \in Callers :
        (IsOpenReturned(t) /\ th[t].elapsed >= 0)
            => IF th[t].elapsed > timeout_seconds
               THEN ~th[t].ret /\ ~Has(opened_at, th[t].service)
               ELSE th[t].ret /\ Has(opened_at, th[t].service)

\* A check made exactly timeout_seconds after opening still finds the circuit open.
C22_Witness ==
    \E t \in Callers :
        /\ IsOpenReturned(t)
        /\ th[t].elapsed = timeout_seconds
        /\ th[t].ret
        /\ Has(opened_at, th[t].service)

\* A check made later than that moves the circuit to half-open.
C22_WitnessHalfOpen ==
    \E t \in Callers :
        /\ IsOpenReturned(t)
        /\ th[t].elapsed > timeout_seconds
        /\ ~th[t].ret
        /\ ~Has(opened_at, th[t].service)

\* The last thing the capability did in caller t's invocation.
LastResult(t) == th[t].results[Len(th[t].results)]

\* The breaker holds a fresh closed circuit for the service: a count of 0, no
\* open marker, no failure since the last success.
ResetFor(service) ==
    /\ Has(failures, service)
    /\ failures[service] = 0
    /\ ~Has(opened_at, service)
    /\ consec[service] = 0

\* Some caller is between the two statements of record_success for the service.
InRecordSuccess(service) ==
    \E t \in Callers : th[t].service = service /\ th[t].pc \in {"rs66", "rs67"}

\* C23: an invocation that ends with a successful capability call, and a
\* direct record_success call, leave the capability with failure count 0 and
\* no open marker, whatever the count and marker were before; and a circuit
\* is open only with failure_threshold or more failures recorded since the
\* last success.
C23_SuccessResetsBreaker ==
    /\ \A t \in Callers :
          (Ended(t) /\ th[t].results # <<>> /\ LastResult(t) = "ok")
              => ResetFor(th[t].service)
    /\ \A t \in Callers :
          (th[t].op = "record_success" /\ th[t].pc = "done") => ResetFor(th[t].service)
    /\ \A service \in ToolNames :
          (Has(opened_at, service) /\ ~InRecordSuccess(service))
              => consec[service] >= failure_threshold

\* A success in half-open: the invocation began with the circuit open and
\* failure_threshold failures counted, and its call succeeded.
C23_Witness ==
    \E t \in Callers :
        /\ Ended(t)
        /\ th[t].results # <<>>
        /\ LastResult(t) = "ok"
        /\ th[t].start_opened_at >= 0
        /\ th[t].start_failures >= failure_threshold
        /\ ResetFor(th[t].service)

\* A success in the closed state with failures counted, and a direct
\* record_success on an open circuit.
C23_WitnessClosed ==
    \E t \in Callers :
        /\ Ended(t)
        /\ th[t].results # <<>>
        /\ LastResult(t) = "ok"
        /\ th[t].start_opened_at = -1
        /\ th[t].start_failures > 0

C23_WitnessDirect ==
    \E t \in Callers :
        /\ th[t].op = "record_success"
        /\ th[t].pc = "done"
        /\ th[t].start_opened_at >= 0

\* The circuit of the service is half-open: is_open removed the open marker
\* after the timeout and nothing has been recorded since.
HalfOpen(service) == probes[service] >= 0

\* C24: in half-open, the record_failure call for the trial returns with the
\* open marker set again, stamped with the time of that call, whatever
\* failure_threshold is (the count kept from before is only incremented); and
\* record_success, from its first statement on, leaves count 0 and no marker.
C24_TrialDecides ==
    [][\A t \in Callers :
         (th[t].service \in ToolNames /\ HalfOpen(th[t].service)) =>
            /\ (th[t].pc = "rf72w" /\ th'[t].pc # "rf72w")
                  => ThresholdReached(failures'[th[t].service], failure_threshold)
            /\ (th[t].pc \in {"rf74", "rf75"} /\ th'[t].pc \notin {"rf74", "rf75"})
                  => /\ Has(opened_at', th[t].service)
                     /\ opened_at'[th[t].service] = now'
                     /\ ~HalfOpen(th[t].service)'
            /\ (th[t].pc = "rs65" /\ th'[t].pc # "rs65")
                  => /\ failures'[th[t].service] = 0
                     /\ ~Has(opened_at', th[t].service)
                     /\ consec'[th[t].service] = 0
                     /\ ~HalfOpen(th[t].service)']_vars

\* The trial failed once: the invocation began with the circuit open, passed
\* the check, recorded one failure, and the circuit is open again with a
\* later timestamp although failure_threshold is 2 or more.
C24_Witness ==
    \E t \in Callers :
        /\ th[t].op = "execute"
        /\ th[t].pc = "sleep"
        /\ th[t].start_opened_at >= 0
        /\ th[t].checks = <<FALSE>>
        /\ th[t].recorded = 1
        /\ failure_threshold >= 2
        /\ Has(opened_at, th[t].service)
        /\ opened_at[th[t].service] > th[t].start_opened_at

\* The trial succeeded: the circuit is closed again.
C24_WitnessSuccess ==
    \E t \in Callers :
        /\ Ended(t)
        /\ th[t].start_opened_at >= 0
        /\ th[t].checks = <<FALSE>>
        /\ th[t].results = <<"ok">>
        /\ ResetFor(th[t].service)

\* No failure is on record for the service: none since the last success, or
\* none ever.
NoFailureRecorded(service) == Get(failures, service, 0) = 0 \/ consec[service] = 0

\* C25: between breaker calls, a capability with no failure on record has no
\* open marker, so that an is_open check of it returns FALSE; and every
\* stored failure count is 0 or more.
C25_NoFailuresMeansClosed ==
    /\ \A service \in ToolNames :
          (NoFailureRecorded(service) /\ ~InRecordSuccess(service))
              => (~Has(opened_at, service) /\ ~OpenNow(service))
    /\ \A t \in Callers :
          (IsOpenReturned(t) /\ NoFailureRecorded(th[t].service)) => ~th[t].ret
    /\ \A service \in DOMAIN failures : failures[service] >= 0

\* record_success was called on an open circuit and has returned: the count
\* is 0 and the marker is gone.
C25_Witness ==
    \E t \in Callers :
        /\ th[t].op = "record_success"
        /\ th[t].pc = "done"
        /\ th[t].start_opened_at >= 0
        /\ th[t].start_failures >= failure_threshold
        /\ NoFailureRecorded(th[t].service)
        /\ ~Has(opened_at, th[t].service)

\* is_open asked about a capability whose failures a success has wiped out.
C25_WitnessCheck ==
    \E t \in Callers :
        /\ th[t].op = "is_open"
        /\ IsOpenReturned(t)
        /\ Has(failures, th[t].service)
        /\ NoFailureRecorded(th[t].service)
        /\ ~th[t].ret

\* The step is made by a caller working on the service, at one of the places pcs.
StepAt(service, pcs) ==
    \E t \in Callers : th[t].service = service /\ th[t].pc \in pcs

\* C26: between breaker calls an open marker goes with a failure count of
\* failure_threshold or more; a marker is created, or stamped anew, only by
\* line 75 of record_failure, and removed only by line 67 of record_success
\* or by line 87 of is_open more than timeout_seconds after it was set.
C26_MarkerLifecycle ==
    /\ [](\A service \in ToolNames :
            (Has(opened_at, service) /\ ~InRecordSuccess(service))
                => (Has(failures, service) /\ failures[service] >= failure_threshold))
    /\ [][\A service \in ToolNames :
            /\ (Has(opened_at', service)
                 /\ (~Has(opened_at, service) \/ opened_at'[service] # opened_at[service]))
                  => StepAt(service, {"rf75"})
            /\ (Has(opened_at, service) /\ ~Has(opened_at', service))
                  => \/ StepAt(service, {"rs67"})
                     \/ /\ StepAt(service, {"io87"})
                        /\ TimedOut(now, opened_at[service], timeout_seconds)]_vars

\* The circuit has just opened at exactly failure_threshold failures.
C26_Witness ==
    /\ failure_threshold >= 2
    /\ \E t \in Callers :
          /\ th[t].op = "record_failure"
          /\ th[t].pc = "done"
          /\ Has(opened_at, th[t].service)
          /\ failures[th[t].service] = failure_threshold
          /\ opened_at[th[t].service] = now

\* is_open has removed a marker after the timeout.
C26_WitnessRemoved ==
    \E t \in Callers :
        /\ th[t].op = "is_open"
        /\ th[t].pc = "done"
        /\ th[t].start_opened_at >= 0
        /\ ~Has(opened_at, th[t].service)
        /\ failures[th[t].service] >= failure_threshold

\* The breaker's record of one service: its failure count and open marker
\* (-1 where the dict has no entry).
CircuitState(fs, oa, service) ==
    [failures |-> Get(fs, service, -1), opened_at |-> Get(oa, service, -1)]

\* C27: a step changes the failure count or the open marker of a service only
\* when it is a step of a breaker call or an invocation for that very
\* service; whatever is done for one capability leaves the others' records
\* as they were.
C27_PerServiceState ==
    [][\A service \in ToolNames :
         CircuitState(failures', opened_at', service)
             # CircuitState(failures, opened_at, service)
           => \E t \in Callers :
                 th[t].service = service /\ th[t].pc \notin {"idle", "done"}]_vars

\* One tool's circuit is open while another tool, with a failure of its own
\* on record, is still closed.
C27_Witness ==
    /\ failure_threshold >= 2
    /\ Has(opened_at, "get_weather")
    /\ Has(failures, "query_database")
    /\ failures["query_database"] = 1
    /\ ~Has(opened_at, "query_database")
    /\ failures["get_weather"] >= failure_threshold

\* Caller t's invocation has made the circuit check of a retry, and the
\* failures recorded so far have reached the threshold.
RetryCheckedAtThreshold(t) ==
    /\ th[t].op = "execute"
    /\ th[t].pc = "ex212r"
    /\ th[t].attempt_number >= 2
    /\ Get(failures, th[t].service, 0) >= failure_threshold

\* C28 as stated: once a RetryableError recorded during the invocation has
\* brought the count to failure_threshold, the check of the next retry finds
\* the circuit open (so that no call is made and the invocation fails fast).
C28_RetryAlwaysFailsFast ==
    \A t \in Callers : RetryCheckedAtThreshold(t) => th[t].ret

\* C28 amended: the check is made before every attempt; at a retry's check
\* with the count at the threshold the open marker is there, and the check
\* finds the circuit open when less than timeout_seconds have passed since it
\* opened; an invocation whose check found the circuit open makes no call
\* for that attempt and ends with the "unavailable" PermanentError, after
\* fewer than 3 calls.
C28_RetryFailsFastWithinTimeout ==
    \A t \in Callers :
        /\ th[t].op = "execute" => Len(th[t].checks) >= th[t].calls
        /\ RetryCheckedAtThreshold(t)
              => /\ th[t].elapsed >= 0
                 /\ th[t].elapsed < timeout_seconds => th[t].ret
                 /\ th[t].elapsed > timeout_seconds => ~th[t].ret
        /\ (Ended(t) /\ th[t].checks[Len(th[t].checks)])
              => /\ th[t].outcome = [kind |-> "raised", exc |-> UnavailableError,
                                     text |-> "unavailable"]
                 /\ th[t].calls = Len(th[t].checks) - 1
                 /\ th[t].calls < StopAfterAttempt
                 /\ \A i \in 1..Len(th[t].results) : th[t].results[i] = "RetryableError"

\* The invocation began with the circuit closed, its first failure brought
\* the count to the threshold, and the retry, one second later and within the
\* timeout, was refused.
C28_Witness ==
    \E t \in Callers :
        /\ Ended(t)
        /\ th[t].checks = <<FALSE, TRUE>>
        /\ th[t].start_opened_at = -1
        /\ th[t].calls = 1
        /\ th[t].recorded = 1
        /\ th[t].outcome.text = "unavailable"
        /\ Has(opened_at, th[t].service)
        /\ now - opened_at[th[t].service] < timeout_seconds

\* The same with the timeout over by the time of the retry: a third call is made.
C28_WitnessProbe ==
    \E t \in Callers :
        /\ th[t].op = "execute"
        /\ th[t].start_opened_at = -1
        /\ th[t].start_failures = failure_threshold - 2
        /\ th[t].recorded = 2
        /\ th[t].calls = 3

(***************************************************************************)
(* Claims about the shape of the rendered context                          *)
(***************************************************************************)

\* Position in the rendered sequence of the first conversation entry, less one.
Offset == IF HasNotice THEN 2 ELSE 1

\* The entries of the rendered sequence with role "system".
SystemEntries == {i \in 1..Len(context) : context[i].role = "system"}

\* C29: every rendered sequence begins with the one system entry (prompt
\* plus facts digest), also with an empty conversation and with a prompt
\* larger than the budget; the only other system entry is the omission
\* notice, second when present; the rest are the newest conversation
\* entries, in the order of the log, each with its role and content.
C29_RenderedShape ==
    Rendered =>
        /\ context[1] = [role |-> "system",
                         content |-> SystemContent(context_args.system_prompt,
                                                   context_args.include_facts, facts)]
        /\ SystemEntries = IF HasNotice THEN {1, 2} ELSE {1}
        /\ NIncluded \in 0..Len(conversation)
        /\ \A j \in 1..NIncluded :
              LET msg == conversation[NExcluded + j]
              IN  context[Offset + j] = [role |-> msg.role, content |-> msg.content]

\* A rendering with a notice followed by two different conversation entries.
C29_Witness ==
    /\ Rendered
    /\ HasNotice
    /\ NIncluded >= 2
    /\ context[Len(context)] # context[Len(context) - 1]

\* A rendering whose prompt alone is over the budget: the system entry alone,
\* or with the notice.
C29_WitnessOverBudget ==
    /\ Rendered
    /\ count_tokens(context[1].content) > Budget
    /\ conversation # <<>>
    /\ NIncluded = 0

\* C30: the rendered sequence has an omission notice exactly when some
\* conversation entry was left out; there is one notice at most, and the
\* number it states is the log's length minus the number of entries included.
C30_NoticeCountsExcluded ==
    Rendered =>
        /\ HasNotice <=> NExcluded > 0
        /\ Cardinality(SystemEntries \ {1}) <= 1
        /\ HasNotice => /\ context[2].content = OmissionNotice(NExcluded)
                        /\ context[2].content[5] = ToString(Len(conversation) - NIncluded)

\* A notice that reports two omitted messages, before one that was kept.
C30_Witness ==
    /\ Rendered
    /\ HasNotice
    /\ NExcluded = 2
    /\ NIncluded = 1
    /\ context[2].content[5] = "2"

\* A rendering of a non-empty conversation without a notice.
C30_WitnessNoNotice ==
    /\ Rendered
    /\ ~HasNotice
    /\ Len(conversation) >= 2
    /\ NIncluded = Len(conversation)

\* The step is a call of get_conversation_context: it is the only operation
\* that leaves a result in context.
RenderStep == context' # <<>>

\* C31: a call of get_conversation_context leaves the conversation log, the
\* facts and the working state as they were, and a call repeated with the same
\* arguments returns the sequence the call before it returned.
C31_RenderHasNoSideEffect ==
    [][RenderStep =>
          /\ conversation' = conversation
          /\ facts' = facts
          /\ working_state' = working_state
          /\ max_context_tokens' = max_context_tokens
          /\ (Rendered /\ context_args' = context_args) => context' = context]_vars

\* The same rendering was made twice in a row, of a log it could not hold in
\* full, with a fact in the digest and a working state set.
C31_Witness ==
    /\ renders = 2
    /\ HasNotice
    /\ NIncluded >= 1
    /\ facts # <<>>
    /\ context_args.include_facts
    /\ DOMAIN working_state # {}

\* C32: every conversation entry of a rendering has the whole content of the
\* log entry it stands for; an empty log renders as the system entry alone;
\* a log of one message with more tokens than the whole budget renders as the
\* system entry and a notice of one omitted message.
C32_WholeOrNotAtAll ==
    Rendered =>
        /\ \A j \in 1..NIncluded :
              /\ context[Offset + j].content = conversation[NExcluded + j].content
              /\ \E i \in 1..Len(conversation) :
                    context[Offset + j].content = conversation[i].content
        /\ conversation = <<>> => (Len(context) = 1 /\ ~HasNotice)
        /\ (Len(conversation) = 1 /\ count_tokens(conversation[1].content) > Budget)
              => /\ Len(context) = 2
                 /\ context[2] = [role |-> "system", content |-> OmissionNotice(1)]

\* The prompt fits the budget and the only message of the log does not.
C32_Witness ==
    /\ Rendered
    /\ Len(conversation) = 1
    /\ count_tokens(context[1].content) <= Budget
    /\ count_tokens(conversation[1].content) > Budget
    /\ HasNotice

\* An empty log, rendered.
C32_WitnessEmpty == Rendered /\ conversation = <<>> /\ Len(context) = 1

\* A message of two tokens that was included.
C32_WitnessIncluded ==
    /\ Rendered
    /\ NIncluded >= 1
    /\ count_tokens(context[Len(context)].content) = MaxMsgTokens

(***************************************************************************)
(* Claims about the history of the agent loops                             *)
(***************************************************************************)

\* The positions of the assistant entries of the history, and the last of them.
AssistantEntries == {i \in 1..Len(messages) : messages[i].role = "assistant"}
LastAssistant == IF AssistantEntries = {} THEN 0
                 ELSE CHOOSE i \in AssistantEntries : \A j \in AssistantEntries : j <= i

\* The number of tool entries that follow entry i without a gap.
ToolsAfter(i) ==
    Cardinality({j \in (i + 1)..Len(messages) :
                    \A k \in (i + 1)..j : messages[k].role = "tool"})

\* The history is the initial entries followed by one block per acting phase:
\* an assistant entry with its requests, then tool entries for the requests
\* in the order issued; as many as requests when the phase is over (over(i)),
\* and as many as requests already taken from pending while it goes on.
HistoryShape(over(_)) ==
    /\ Len(messages) >= Len(InitialMessages)
    /\ SubSeq(messages, 1, Len(InitialMessages)) = InitialMessages
    /\ \A j \in (Len(InitialMessages) + 1)..Len(messages) :
          /\ messages[j].role \in {"assistant", "tool"}
          /\ messages[j].role = "tool" => messages[j - 1].role \in {"assistant", "tool"}
    /\ \A i \in AssistantEntries :
          LET n == Len(messages[i].tool_calls)
              d == ToolsAfter(i)
          IN  /\ n >= 1
              /\ d <= n
              /\ \A k \in 1..d : messages[i + k].tool_call_id = k
              /\ IF over(i) THEN d = n ELSE d = n - Len(pending)
    /\ Len(ToolEntries) = Len(observed)
    /\ \A k \in 1..Len(observed) : ToolEntries[k].tool_call_id = observed[k].id
                                      /\ ToolEntries[k].content = observed[k].content
    /\ th[LoopCaller].pc # "idle"
          => (lpc = "wait" /\ th[LoopCaller].service = Head(pending).name)

\* The steps of an acting phase: the history only grows at its end; the
\* assistant entry is appended on entering the phase, with no tool run yet;
\* a tool entry is appended for the request at the head of pending, when its
\* execution is over; an execution begins only with none under way.
ActingSteps ==
    /\ messages' # messages
          => (Len(messages') = Len(messages) + 1
              /\ SubSeq(messages', 1, Len(messages)) = messages)
    /\ (lpc = "for" /\ lpc' = "act")
          => /\ messages' = Append(messages,
                    Message("assistant", responses'[Len(responses')].content,
                            responses'[Len(responses')].tool_calls, 0))
             /\ Len(pending') = Len(responses'[Len(responses')].tool_calls)
             /\ observed' = observed
             /\ th' = th
    /\ observed' # observed
          => /\ lpc \in {"act", "wait"}
             /\ pending' = Tail(pending)
             /\ messages' = Append(messages,
                    Message("tool", observed'[Len(observed')].content, NoToolCalls,
                            Head(pending).id))
    /\ (th[LoopCaller].pc = "idle" /\ th'[LoopCaller].pc # "idle")
          => (lpc = "act" /\ lpc' = "wait" /\ messages' = messages)

\* The acting phase of the assistant entry at i is over.
PhaseOver(i) == i # LastAssistant \/ lpc \notin {"act", "wait"}

\* The same, a phase that json.loads ended not counted as over.
PhaseCompleted(i) == i # LastAssistant \/ lpc \notin {"act", "wait", "raised"}

\* C33: each acting phase adds to the history one assistant entry with the
\* requests, before any of them is executed, and then one tool entry per
\* request, in the order issued, one execution at a time; the history is
\* append-only.
C33_ActingAppendsOnePerRequest ==
    [](agent # "none" => HistoryShape(PhaseOver)) /\ [][ActingSteps]_vars

\* The same for the phases that json.loads does not end (it holds): a phase
\* that it ends leaves the entries of the requests executed until then.
C33_UnlessArgumentsRejected ==
    [](agent # "none" => HistoryShape(PhaseCompleted)) /\ [][ActingSteps]_vars

\* A phase of two requests, both executed and observed in order.
C33_WitnessCompleted ==
    /\ lpc = "for"
    /\ LastAssistant > 0
    /\ Len(messages[LastAssistant].tool_calls) = 2
    /\ ToolsAfter(LastAssistant) = 2
    /\ messages[Len(messages)].tool_call_id = 2

\* A phase of two requests cut short after the first.
C33_WitnessCutShort ==
    /\ lpc = "raised"
    /\ LastAssistant > 0
    /\ Len(messages[LastAssistant].tool_calls) = 2
    /\ ToolsAfter(LastAssistant) = 1


====
